---- MODULE Spec2Model ----
(***************************************************************************)
(* Reconciliation core of the cortex operator                              *)
(* (pkg/operator/deployment/sync/api.go): UpdateAPI, RefreshAPI, DeleteAPI,*)
(* the appliers, the detached creation rollback and the process-wide       *)
(* autoscaler cron registry _autoscalerCrons.                              *)
(*                                                                         *)
(* One API name is modelled.  Every goroutine step that touches shared     *)
(* state (a gateway call, an object-storage call, an access to the         *)
(* registry map, a cron start or cancel) is one action; the branches of    *)
(* parallel.RunFirstErr interleave freely and are joined before the caller *)
(* goes on.  Every call to an external collaborator may fail.              *)
(***************************************************************************)
EXTENDS Integers, Sequences, FiniteSets, TLC

\* ------------------------------------------------------------------ bounds
\* Number of k8s.RandomName() draws, hence of UpdateAPI/RefreshAPI calls.
MaxNames == 2
\* Number of DeleteAPI calls.
MaxDeletes == 1
\* Number of entry operations started when callers run concurrently.
MaxCalls == 2
\* Longest pod list the gateway returns to isAPIUpdating.
MaxPods == 2
\* Largest Status.ReadyReplicas the gateway reports.
MaxReady == 1

\* ------------------------------------------------------------ value spaces
\* nil pointer / absent object
Nil == [nil |-> TRUE]
\* nil error; errors and messages are sequences of words
NoErr == <<>>
NoMsg == <<>>
\* the empty string as a deploymentID label; RandomName draws are 1, 2, ...
EmptyLabel == 0

ApiName == "a"
Callers == {"c1", "c2"}
ProjectIDs == {"p1"}
\* Desired configurations (userconfig.API) of the one API.
Configs ==
  { [name |-> ApiName, compute |-> 1, strategy |-> "rolling", minReplicas |-> 1],
    [name |-> ApiName, compute |-> 2, strategy |-> "rolling", minReplicas |-> 2] }

\* Annotation keys are sequences of segments so that strings.Contains can be
\* computed: "autoscaling.cortex.dev/min-replicas" and a platform-injected key.
MinReplicasKey == <<"autoscaling.", "cortex.dev/", "min-replicas">>
RevisionKey == <<"deployment.kubernetes.io/", "revision">>

\* ---------------------------------------------------------- pure functions
\* strings.Contains(key, sub) on segmented keys
Contains(key, sub) == \E i \in 1..Len(key) : key[i] = sub

\* spec.GetAPISpec: the ID is a hash of the configuration, the deploymentID
\* and the projectID; the hash is modelled by the tuple it is computed from.
GetAPISpec(apiConfig, projectID, deploymentID) ==
  [name |-> apiConfig.name, cfg |-> apiConfig, projectID |-> projectID,
   deploymentID |-> deploymentID,
   id |-> <<apiConfig.compute, apiConfig.strategy, apiConfig.minReplicas,
            deploymentID, projectID>>]

\* DeploymentSpec(api, prevDeployment): labels, pod template, rollout strategy
\* and cortex annotations of the workload object.
DeploymentSpec(api, prevDeployment) ==
  [labels |-> [apiName |-> api.name, apiID |-> api.id,
               deploymentID |-> api.deploymentID],
   compute |-> api.cfg.compute,
   strategy |-> api.cfg.strategy,
   annotations |-> [k \in {MinReplicasKey} |-> api.cfg.minReplicas],
   readyReplicas |-> 0]

\* serviceSpec(api) / virtualServiceSpec(api)
serviceSpec(api) == [apiName |-> api.name]
virtualServiceSpec(api) == [apiName |-> api.name]

\* What the platform stores for a created/updated workload: the definition plus
\* an annotation of its own.
Stored(d) ==
  [d EXCEPT !.annotations =
     [k \in DOMAIN d.annotations \cup {RevisionKey} |->
        IF k = RevisionKey THEN 1 ELSE d.annotations[k]]]

\* Faulty variant of lines 364-372, which keeps every annotation
\* (C2_RepeatWritesNothing does not hold of it).
extractCortexAnnotations_All(obj) == obj.annotations

\* Lines 364-372: the annotations whose key contains "cortex.dev/"
extractCortexAnnotations(obj) ==
  [k \in {key \in DOMAIN obj.annotations : Contains(key, "cortex.dev/")} |->
     obj.annotations[k]]

\* maps.StrMapsEqual
StrMapsEqual(m1, m2) ==
  /\ DOMAIN m1 = DOMAIN m2
  /\ \A k \in DOMAIN m1 : m1[k] = m2[k]

doCortexAnnotationsMatch(obj1, obj2) ==
  StrMapsEqual(extractCortexAnnotations(obj1), extractCortexAnnotations(obj2))

areAPIsEqual(d1, d2) ==
  /\ d1.compute = d2.compute
  /\ d1.strategy = d2.strategy
  /\ d1.labels.apiName = d2.labels.apiName
  /\ d1.labels.apiID = d2.labels.apiID
  /\ d1.labels.deploymentID = d2.labels.deploymentID
  /\ doCortexAnnotationsMatch(d1, d2)

isPodSpecLatest(deployment, pod) ==
  /\ deployment.compute = pod.compute
  /\ deployment.labels.apiName = pod.labels.apiName
  /\ deployment.labels.apiID = pod.labels.apiID
  /\ deployment.labels.deploymentID = pod.labels.deploymentID

\* getReplicaCounts(deployment, pods).Updated: ready and failed pods of the
\* current revision.
UpdatedReady(deployment, pods) ==
  Cardinality({i \in 1..Len(pods) :
     isPodSpecLatest(deployment, pods[i]) /\ pods[i].phase = "ready"})
UpdatedTotalFailed(deployment, pods) ==
  Cardinality({i \in 1..Len(pods) :
     isPodSpecLatest(deployment, pods[i]) /\ pods[i].phase = "failed"})

\* userconfig.AutoscalingFromAnnotations(deployment).MinReplicas
MinReplicas(deployment) == deployment.annotations[MinReplicasKey]

\* Faulty variant of line 334, which ignores failed pods
\* (C11_RolloutStatusRule does not hold of it).
isAPIUpdating_ReadyOnly(deployment, pods) ==
  UpdatedReady(deployment, pods) < MinReplicas(deployment)

\* isAPIUpdating once the pods are listed
isAPIUpdating(deployment, pods) ==
  /\ UpdatedReady(deployment, pods) < MinReplicas(deployment)
  /\ UpdatedTotalFailed(deployment, pods) = 0

\* Pods the gateway may list for a workload: of its revision or of a stale one.
PodPhases == {"ready", "failed", "pending"}
PodsOf(deployment) ==
  { [labels |-> [deployment.labels EXCEPT !.deploymentID = id],
     compute |-> deployment.compute, phase |-> ph] :
       id \in {deployment.labels.deploymentID, EmptyLabel}, ph \in PodPhases }
PodLists(deployment) ==
  UNION { [1..n -> PodsOf(deployment)] : n \in 0..MaxPods }

\* ------------------------------------------------------------------- errors
ErrGateway == <<"gateway call failed">>
ErrUpload == <<"upload api spec", "gateway call failed">>
ErrAutoscaler == <<"autoscaler.AutoscaleFn failed">>
ErrorAPIUpdating(apiName) == <<apiName, "is updating">>
ErrorAPINotDeployed(apiName) == <<apiName, "is not deployed">>
\* parallel.RunFirstErr keeps the first error observed
FirstErr(seen, e) == IF seen = NoErr THEN e ELSE seen

\* -------------------------------------------------------------------- state
VARIABLES
  deployment,       \* the workload object in the cluster, or Nil
  service,          \* the endpoint object, or Nil
  virtualService,   \* the routing-rule object, or Nil
  s3,               \* the API specs persisted in object storage
  autoscalerCrons,  \* _autoscalerCrons: apiName -> cron handle
  crons,            \* every cron started so far: handle -> [live, from]
  call,             \* per caller: the entry operation in progress and its locals
  del,              \* per goroutine running deleteK8sResources: its branches
  nextName,         \* the next k8s.RandomName() draw
  nDeletes,         \* the number of DeleteAPI calls made
  crashed,          \* the Go runtime has aborted the operator process
  probe             \* a pure function evaluated on its own: arguments, result

vars ==
  <<deployment, service, virtualService, s3, autoscalerCrons, crons, call, del,
    nextName, nDeletes, crashed, probe>>

RollbackIds == <<"r1", "r2", "r3", "r4", "r5", "r6", "r7", "r8">>
Rollbacks == {RollbackIds[i] : i \in 1..MaxNames}
Deleters == Callers \cup Rollbacks

IdleCall ==
  [op |-> "idle", pc |-> "idle", cfg |-> Nil, projectID |-> "", force |-> FALSE,
   keepCache |-> FALSE, rnd |-> 0, got |-> {}, prevD |-> Nil, prevS |-> Nil,
   prevV |-> Nil, api |-> Nil, isUpd |-> FALSE, bD |-> "idle", bS |-> "idle",
   bV |-> "idle", bX |-> "idle", h |-> 0, err |-> NoErr,
   msg |-> NoMsg, wr |-> {}, be |-> FALSE, before |-> Nil, nS3 |-> 0,
   dops |-> <<>>]
IdleDel == [bD |-> "idle", bS |-> "idle", bV |-> "idle", err |-> NoErr]
StartDel == [bD |-> "del_get", bS |-> "todo", bV |-> "todo", err |-> NoErr]

\* no pure function is being evaluated on its own
NoProbe ==
  [fn |-> "none", d1 |-> Nil, d2 |-> Nil, pods |-> <<>>, done |-> FALSE,
   out |-> FALSE]

\* The operator has just started on an empty cluster.
Started0 ==
  /\ deployment = Nil
  /\ service = Nil
  /\ virtualService = Nil
  /\ s3 = {}
  /\ autoscalerCrons = [n \in {} |-> 0]
  /\ crons = <<>>
  /\ call = [c \in Callers |-> IdleCall]
  /\ del = [g \in Deleters |-> IdleDel]
  /\ nextName = 1
  /\ nDeletes = 0
  /\ crashed = FALSE

Init == Started0 /\ probe = NoProbe

\* the entry operation has its result (message, error) and is about to return
Done(k, msg, err) == [k EXCEPT !.pc = "done", !.msg = msg, !.err = err]

\* Returning takes no time: a state in which an operation holds its result is
\* left by that operation's return before anything else happens.  Nothing
\* happens any more once the process has been aborted.
Returning == \E c \in Callers : call[c].pc = "done"
Running == ~crashed /\ ~Returning

\* Callers are interchangeable workers: a call is taken by the first idle one.
CallerSeq == <<"c1", "c2">>
CanCall(c) ==
  /\ call[c].pc = "idle"
  /\ \A i, j \in 1..Len(CallerSeq) :
       CallerSeq[j] = c /\ i < j => call[CallerSeq[i]].pc # "idle"

\* An error returned by a collaborator (gateway, object storage, autoscaler),
\* as opposed to the two errors UpdateAPI and RefreshAPI raise themselves.
CollaboratorFailed(k) ==
  k.err \notin {NoErr, ErrorAPIUpdating(ApiName), ErrorAPINotDeployed(ApiName)}

\* What a caller remembers of the call it made before: the configuration, if
\* that call was an UpdateAPI that returned no error.
Before(k) ==
  IF k.op = "UpdateAPI" /\ k.pc = "done" /\ k.err = NoErr
  THEN [cfg |-> k.cfg, projectID |-> k.projectID]
  ELSE Nil

ApplyPcs == {"c_apply", "u_apply", "r_apply"}
Registered == ApiName \in DOMAIN autoscalerCrons
LiveCrons == {h \in 1..Len(crons) : crons[h].live}

\* ---------------------------------------------------------------- UpdateAPI
\* An idle caller invokes UpdateAPI(apiConfig, projectID, force); the random
\* name of line 49 is drawn on entry.  The arguments enter the state where
\* the code first reads them: the configuration at line 54, force at line 76.
CallUpdateAPI(c) ==
  /\ Running
  /\ CanCall(c)
  /\ nextName <= MaxNames
  /\ call' = [call EXCEPT ![c] =
                [IdleCall EXCEPT !.op = "UpdateAPI", !.pc = "fetch",
                                 !.before = call[c].before, !.rnd = nextName]]
  /\ nextName' = nextName + 1
  /\ UNCHANGED <<deployment, service, virtualService, s3, autoscalerCrons, crons,
                 del, nDeletes, crashed,
                 probe>>

\* A gateway read of an object: the object with the status the platform
\* reports at that moment.
ReadObject(obj, ready) ==
  IF obj = Nil THEN Nil ELSE [obj EXCEPT !.readyReplicas = ready]

\* One read of getK8sResources has returned.  Once a read has failed the
\* fetch fails, and what the other reads return is never looked at.
Fetched(k, what, ok, obj) ==
  IF ok /\ k.err = NoErr
  THEN [k EXCEPT !.got = @ \cup {what},
                 !.prevD = IF what = "deployment" THEN obj ELSE @,
                 !.prevS = IF what = "service" THEN obj ELSE @,
                 !.prevV = IF what = "virtualService" THEN obj ELSE @]
  ELSE [k EXCEPT !.got = @ \cup {what}, !.err = FirstErr(@, ErrGateway),
                 !.prevD = Nil, !.prevS = Nil, !.prevV = Nil]

\* getK8sResources: the three reads run concurrently; each may fail.
getK8sResources_Deployment(c) ==
  /\ Running
  /\ call[c].pc = "fetch"
  /\ "deployment" \notin call[c].got
  /\ \E ok \in BOOLEAN, ready \in 0..MaxReady :
       call' = [call EXCEPT ![c] =
                  Fetched(@, "deployment", ok, ReadObject(deployment, ready))]
  /\ UNCHANGED <<deployment, service, virtualService, s3, autoscalerCrons, crons,
                 del, nextName, nDeletes, crashed,
                 probe>>

getK8sResources_Service(c) ==
  /\ Running
  /\ call[c].pc = "fetch"
  /\ "service" \notin call[c].got
  /\ \E ok \in BOOLEAN :
       call' = [call EXCEPT ![c] =
                  Fetched(@, "service", ok, service)]
  /\ UNCHANGED <<deployment, service, virtualService, s3, autoscalerCrons, crons,
                 del, nextName, nDeletes, crashed,
                 probe>>

getK8sResources_VirtualService(c) ==
  /\ Running
  /\ call[c].pc = "fetch"
  /\ "virtualService" \notin call[c].got
  /\ \E ok \in BOOLEAN :
       call' = [call EXCEPT ![c] =
                  Fetched(@, "virtualService", ok, virtualService)]
  /\ UNCHANGED <<deployment, service, virtualService, s3, autoscalerCrons, crons,
                 del, nextName, nDeletes, crashed,
                 probe>>

\* Faulty variant of lines 49-52, which always takes the random name
\* (C5_DeploymentIDPreserved does not hold of it).
UpdateAPI_deploymentID_Fresh(prevDeployment, randomName) == randomName

\* Lines 49-52: the deploymentID of the spec UpdateAPI materializes.
UpdateAPI_deploymentID(prevDeployment, randomName) ==
  IF prevDeployment # Nil /\ prevDeployment.labels.deploymentID # EmptyLabel
  THEN prevDeployment.labels.deploymentID
  ELSE randomName

\* Lines 45-56, 71, 88: the reads are joined, the spec is materialized and
\* the path is chosen (creation, changed definition, unchanged definition).
UpdateAPI_Materialize(c) ==
  /\ Running
  /\ call[c].pc = "fetch"
  /\ call[c].got = {"deployment", "service", "virtualService"}
  /\ \E cfg \in Configs, projectID \in ProjectIDs :
       LET k == [call[c] EXCEPT !.cfg = cfg, !.projectID = projectID]
           api == GetAPISpec(cfg, projectID,
                             UpdateAPI_deploymentID(k.prevD, k.rnd))
       IN call' = [call EXCEPT ![c] =
            IF k.err # NoErr THEN Done(call[c], NoMsg, k.err)
            ELSE IF k.prevD = Nil THEN [k EXCEPT !.api = api, !.pc = "c_upload"]
            ELSE IF ~areAPIsEqual(k.prevD, DeploymentSpec(api, k.prevD))
                 THEN [k EXCEPT !.api = api, !.pc = "u_status"]
                 ELSE [k EXCEPT !.api = api, !.pc = "s_status",
                                !.prevS = Nil, !.prevV = Nil]]
  /\ UNCHANGED <<deployment, service, virtualService, s3, autoscalerCrons, crons,
                 del, nextName, nDeletes, crashed,
                 probe>>

\* config.AWS.UploadMsgpackToS3(api, bucket, api.Key) at program point `at`;
\* on success the caller goes on to `next`, where the branches `branches`
\* of the apply are started.
UploadMsgpackToS3(c, at, next, branches) ==
  /\ Running
  /\ call[c].pc = at
  /\ \E ok \in BOOLEAN :
       /\ s3' = IF ok THEN s3 \cup {call[c].api} ELSE s3
       /\ call' = [call EXCEPT ![c] =
            IF ok
            THEN [@ EXCEPT !.pc = next, !.wr = @ \cup {"s3"},
                           !.bD = branches.bD, !.bS = branches.bS,
                           !.bV = branches.bV]
            ELSE [Done(@, NoMsg, ErrUpload) EXCEPT !.wr = @ \cup {"s3"}]]
  /\ UNCHANGED <<deployment, service, virtualService, autoscalerCrons, crons,
                 del, nextName, nDeletes, crashed,
                 probe>>

AllThree == [bD |-> "apply", bS |-> "todo", bV |-> "todo"]
OnlyDeployment == [bD |-> "apply", bS |-> "idle", bV |-> "idle"]

\* Line 57
UpdateAPI_Create_Upload(c) == UploadMsgpackToS3(c, "c_upload", "c_apply", AllThree)
\* Line 79
UpdateAPI_Update_Upload(c) == UploadMsgpackToS3(c, "u_upload", "u_apply", AllThree)

\* isAPIUpdating(prevDeployment): the pods are listed (the call may fail) and
\* the rule is applied to them.
IsUpdatingOutcomes(prevDeployment) ==
  {isAPIUpdating(prevDeployment, pods) : pods \in PodLists(prevDeployment)}

\* Faulty variant of the guard of line 76, which refuses nothing
\* (C3_InFlightGuard does not hold of it).
UpdateAPI_guard_Never(isUpdating, force) == FALSE

\* Line 76: the in-flight guard
UpdateAPI_guard(isUpdating, force) == isUpdating /\ ~force

\* Lines 72-78: the definition changed; the in-flight guard.  force is kept
\* where it decided something: when the rollout is converging.
UpdateAPI_Changed_isAPIUpdating(c) ==
  /\ Running
  /\ call[c].pc = "u_status"
  /\ \E ok \in BOOLEAN, isUpdating \in IsUpdatingOutcomes(call[c].prevD),
        force \in BOOLEAN :
       call' = [call EXCEPT ![c] =
          IF ~ok THEN Done(@, NoMsg, ErrGateway)
          ELSE IF UpdateAPI_guard(isUpdating, force)
               THEN [Done(@, NoMsg, ErrorAPIUpdating(@.api.name))
                       EXCEPT !.isUpd = isUpdating, !.force = force]
               ELSE [@ EXCEPT !.isUpd = isUpdating,
                              !.force = isUpdating /\ force,
                              !.pc = "u_upload"]]
  /\ UNCHANGED <<deployment, service, virtualService, s3, autoscalerCrons, crons,
                 del, nextName, nDeletes, crashed,
                 probe>>

\* Lines 88-96: the definition did not change.
UpdateAPI_Same_isAPIUpdating(c) ==
  /\ Running
  /\ call[c].pc = "s_status"
  /\ \E ok \in BOOLEAN, isUpdating \in IsUpdatingOutcomes(call[c].prevD) :
       call' = [call EXCEPT ![c] =
          IF ~ok THEN Done(@, NoMsg, ErrGateway)
          ELSE IF isUpdating
               THEN [Done(@, <<@.api.name, "is already updating">>, NoErr)
                       EXCEPT !.isUpd = isUpdating]
               ELSE [Done(@, <<@.api.name, "is up to date">>, NoErr)
                       EXCEPT !.isUpd = isUpdating]]
  /\ UNCHANGED <<deployment, service, virtualService, s3, autoscalerCrons, crons,
                 del, nextName, nDeletes, crashed,
                 probe>>

\* ------------------------------------------------------ applyK8sDeployment
\* newDeployment := DeploymentSpec(api, prevDeployment)
newDeployment(k) == DeploymentSpec(k.api, k.prevD)

\* The caller's deployment branch after a gateway write: on to the cron
\* registry, or out with the error.
AfterWrite(k, success) ==
  IF success
  THEN [k EXCEPT !.bD = "cron_get", !.wr = @ \cup {"deployment"}]
  ELSE [k EXCEPT !.bD = "done", !.wr = @ \cup {"deployment"},
                 !.err = FirstErr(@, ErrGateway)]

\* Faulty variant of line 228, which never replaces the workload
\* (C18_CreateOrUpdatePolicy does not hold of it).
NeverBecameReady_Off(prevDeployment) == FALSE

\* Line 228: prevDeployment.Status.ReadyReplicas == 0
NeverBecameReady(prevDeployment) == prevDeployment.readyReplicas = 0

\* Lines 223-227: no prior workload, CreateDeployment (fails if one exists).
applyK8sDeployment_Create(c) ==
  /\ Running
  /\ call[c].pc \in ApplyPcs
  /\ call[c].bD = "apply"
  /\ call[c].prevD = Nil
  /\ \E ok \in BOOLEAN :
       LET success == ok /\ deployment = Nil IN
       /\ deployment' = IF success THEN Stored(newDeployment(call[c]))
                        ELSE deployment
       /\ call' = [call EXCEPT ![c] =
            [AfterWrite(@, success) EXCEPT !.dops = Append(@, "create")]]
  /\ UNCHANGED <<service, virtualService, s3, autoscalerCrons, crons, del,
                 nextName, nDeletes, crashed,
                 probe>>

\* Lines 228-230: the prior workload never became ready, DeleteDeployment;
\* its result is ignored.
applyK8sDeployment_Delete(c) ==
  /\ Running
  /\ call[c].pc \in ApplyPcs
  /\ call[c].bD = "apply"
  /\ call[c].prevD # Nil
  /\ NeverBecameReady(call[c].prevD)
  /\ \E ok \in BOOLEAN :
       deployment' = IF ok THEN Nil ELSE deployment
  /\ call' = [call EXCEPT ![c] =
                [@ EXCEPT !.bD = "recreate", !.wr = @ \cup {"deployment"},
                          !.dops = Append(@, "delete")]]
  /\ UNCHANGED <<service, virtualService, s3, autoscalerCrons, crons, del,
                 nextName, nDeletes, crashed,
                 probe>>

\* Lines 231-234: CreateDeployment after the delete.
applyK8sDeployment_Recreate(c) ==
  /\ Running
  /\ call[c].pc \in ApplyPcs
  /\ call[c].bD = "recreate"
  /\ \E ok \in BOOLEAN :
       LET success == ok /\ deployment = Nil IN
       /\ deployment' = IF success THEN Stored(newDeployment(call[c]))
                        ELSE deployment
       /\ call' = [call EXCEPT ![c] =
            [AfterWrite(@, success) EXCEPT !.dops = Append(@, "create")]]
  /\ UNCHANGED <<service, virtualService, s3, autoscalerCrons, crons, del,
                 nextName, nDeletes, crashed,
                 probe>>

\* Lines 235-240: UpdateDeployment (fails if the workload is gone).
applyK8sDeployment_Update(c) ==
  /\ Running
  /\ call[c].pc \in ApplyPcs
  /\ call[c].bD = "apply"
  /\ call[c].prevD # Nil
  /\ ~NeverBecameReady(call[c].prevD)
  /\ \E ok \in BOOLEAN :
       LET success == ok /\ deployment # Nil IN
       /\ deployment' = IF success THEN Stored(newDeployment(call[c]))
                        ELSE deployment
       /\ call' = [call EXCEPT ![c] =
            [AfterWrite(@, success) EXCEPT !.dops = Append(@, "update")]]
  /\ UNCHANGED <<service, virtualService, s3, autoscalerCrons, crons, del,
                 nextName, nDeletes, crashed,
                 probe>>

\* ---------------------------------------------------- UpdateAutoscalerCron
\* cron.Cron.Cancel() on the handle h
Cancel(cs, h) == [cs EXCEPT ![h] = [live |-> FALSE, from |-> <<>>]]
\* cron.Run(autoscaler, ...): a new live cron, derived from `dep`
Run(cs, dep) == Append(cs, [live |-> TRUE, from |-> dep.labels.apiID])

\* Faulty variant of lines 252-254, which cancels nothing
\* (C9_SequentialReplacement does not hold of it).
UpdateAutoscalerCron_CancelPrev_Skip(c) ==
  /\ Running
  /\ call[c].pc \in ApplyPcs
  /\ call[c].bD = "cron_get"
  /\ call' = [call EXCEPT ![c] = [@ EXCEPT !.bD = "cron_run"]]
  /\ UNCHANGED <<deployment, service, virtualService, s3, autoscalerCrons, crons,
                 del, nextName, nDeletes, crashed,
                 probe>>

\* Lines 252-254: the registered cron, if any, is cancelled.
UpdateAutoscalerCron_CancelPrev(c) ==
  /\ Running
  /\ call[c].pc \in ApplyPcs
  /\ call[c].bD = "cron_get"
  /\ crons' = IF Registered THEN Cancel(crons, autoscalerCrons[ApiName])
              ELSE crons
  /\ call' = [call EXCEPT ![c] =
                [@ EXCEPT !.bD = "cron_run",
                          !.wr = IF Registered THEN @ \cup {"registry"} ELSE @]]
  /\ UNCHANGED <<deployment, service, virtualService, s3, autoscalerCrons, del,
                 nextName, nDeletes, crashed,
                 probe>>

\* Lines 256-261: autoscaler.AutoscaleFn(deployment) may fail; otherwise
\* cron.Run starts the new cron.
UpdateAutoscalerCron_Run(c) ==
  /\ Running
  /\ call[c].pc \in ApplyPcs
  /\ call[c].bD = "cron_run"
  /\ \E ok \in BOOLEAN :
       /\ crons' = IF ok THEN Run(crons, newDeployment(call[c])) ELSE crons
       /\ call' = [call EXCEPT ![c] =
            IF ok
            THEN [@ EXCEPT !.bD = "cron_put", !.h = Len(crons) + 1]
            ELSE [@ EXCEPT !.bD = "done", !.err = FirstErr(@, ErrAutoscaler)]]
  /\ UNCHANGED <<deployment, service, virtualService, s3, autoscalerCrons, del,
                 nextName, nDeletes, crashed,
                 probe>>

\* Line 261: _autoscalerCrons[apiName] = the new cron.
UpdateAutoscalerCron_Store(c) ==
  /\ Running
  /\ call[c].pc \in ApplyPcs
  /\ call[c].bD = "cron_put"
  /\ autoscalerCrons' = [n \in DOMAIN autoscalerCrons \cup {ApiName} |->
                           IF n = ApiName THEN call[c].h ELSE autoscalerCrons[n]]
  /\ call' = [call EXCEPT ![c] =
                [@ EXCEPT !.bD = "done", !.wr = @ \cup {"registry"}]]
  /\ UNCHANGED <<deployment, service, virtualService, s3, crons, del, nextName, nDeletes, crashed,
                 probe>>

\* --------------------------------------- applyK8sService / VirtualService
\* Lines 266-276: create when no prior endpoint was read (fails if one
\* exists), otherwise update (fails if it is gone).  The prior endpoint is
\* read nowhere after this, and is forgotten.
applyK8sService(c) ==
  /\ Running
  /\ call[c].pc \in ApplyPcs
  /\ call[c].bS = "todo"
  /\ \E ok \in BOOLEAN :
       LET success == ok /\ ((call[c].prevS = Nil) <=> (service = Nil)) IN
       /\ service' = IF success THEN serviceSpec(call[c].api) ELSE service
       /\ call' = [call EXCEPT ![c] =
            IF success
            THEN [@ EXCEPT !.bS = "done", !.wr = @ \cup {"service"},
                           !.prevS = Nil]
            ELSE [@ EXCEPT !.bS = "done", !.wr = @ \cup {"service"},
                           !.prevS = Nil, !.err = FirstErr(@, ErrGateway)]]
  /\ UNCHANGED <<deployment, virtualService, s3, autoscalerCrons, crons, del,
                 nextName, nDeletes, crashed,
                 probe>>

\* Lines 278-288
applyK8sVirtualService(c) ==
  /\ Running
  /\ call[c].pc \in ApplyPcs
  /\ call[c].bV = "todo"
  /\ \E ok \in BOOLEAN :
       LET success == ok /\ ((call[c].prevV = Nil) <=> (virtualService = Nil)) IN
       /\ virtualService' = IF success THEN virtualServiceSpec(call[c].api)
                            ELSE virtualService
       /\ call' = [call EXCEPT ![c] =
            IF success
            THEN [@ EXCEPT !.bV = "done", !.wr = @ \cup {"virtualService"},
                           !.prevV = Nil]
            ELSE [@ EXCEPT !.bV = "done", !.wr = @ \cup {"virtualService"},
                           !.prevV = Nil, !.err = FirstErr(@, ErrGateway)]]
  /\ UNCHANGED <<deployment, service, s3, autoscalerCrons, crons, del,
                 nextName, nDeletes, crashed,
                 probe>>

\* applyK8sResources has returned: every branch has finished
Joined(k) == k.bD = "done" /\ k.bS \in {"done", "idle"} /\ k.bV \in {"done", "idle"}

\* Faulty variant of lines 60-63, which goes on whatever the apply returned
\* (C6_CreationPostcondition does not hold of it).
UpdateAPI_Create_Join_IgnoreErr(c) ==
  /\ Running
  /\ call[c].pc = "c_apply"
  /\ Joined(call[c])
  /\ call' = [call EXCEPT ![c] = [@ EXCEPT !.pc = "c_dash"]]
  /\ UNCHANGED <<deployment, service, virtualService, s3, autoscalerCrons, crons,
                 del, nextName, nDeletes, crashed,
                 probe>>

\* Faulty variant of lines 60-63, which returns the error and starts no
\* rollback (C13_FailedCreationRollsBack does not hold of it).
UpdateAPI_Create_Join_NoRollback(c) ==
  /\ Running
  /\ call[c].pc = "c_apply"
  /\ Joined(call[c])
  /\ call' = [call EXCEPT ![c] =
       IF @.err # NoErr THEN Done(@, NoMsg, @.err)
       ELSE [@ EXCEPT !.pc = "c_dash"]]
  /\ UNCHANGED <<deployment, service, virtualService, s3, autoscalerCrons, crons,
                 del, nextName, nDeletes, crashed, probe>>

\* Lines 60-63: the creation's apply has returned; on error the rollback
\* goroutine is started and the error returned.
UpdateAPI_Create_Join(c) ==
  /\ Running
  /\ call[c].pc = "c_apply"
  /\ Joined(call[c])
  /\ IF call[c].err # NoErr
     THEN /\ del' = [del EXCEPT ![RollbackIds[call[c].rnd]] = StartDel]
          /\ call' = [call EXCEPT ![c] = Done(@, NoMsg, @.err)]
     ELSE /\ del' = del
          /\ call' = [call EXCEPT ![c] = [@ EXCEPT !.pc = "c_dash"]]
  /\ UNCHANGED <<deployment, service, virtualService, s3, autoscalerCrons, crons,
                 nextName, nDeletes, crashed,
                 probe>>

\* Lines 64-68: addAPIToDashboard, its error only printed; "creating <name>".
UpdateAPI_Create_Dashboard(c) ==
  /\ Running
  /\ call[c].pc = "c_dash"
  /\ \E ok \in BOOLEAN :
       call' = [call EXCEPT ![c] =
                  [Done(@, <<"creating", @.api.name>>, NoErr) EXCEPT !.be = ~ok]]
  /\ UNCHANGED <<deployment, service, virtualService, s3, autoscalerCrons, crons,
                 del, nextName, nDeletes, crashed,
                 probe>>

\* Lines 82-85: the update's apply has returned.
UpdateAPI_Update_Join(c) ==
  /\ Running
  /\ call[c].pc = "u_apply"
  /\ Joined(call[c])
  /\ call' = [call EXCEPT ![c] =
       IF @.err # NoErr THEN Done(@, NoMsg, @.err)
       ELSE Done(@, <<"updating", @.api.name>>, NoErr)]
  /\ UNCHANGED <<deployment, service, virtualService, s3, autoscalerCrons, crons,
                 del, nextName, nDeletes, crashed,
                 probe>>

\* --------------------------------------------------------------- RefreshAPI
\* An idle caller invokes RefreshAPI(apiName, force); the random name of
\* line 126 is reserved on entry, and force enters the state where the code
\* reads it, at line 112.
CallRefreshAPI(c) ==
  /\ Running
  /\ CanCall(c)
  /\ nextName <= MaxNames
  /\ call' = [call EXCEPT ![c] =
                [IdleCall EXCEPT !.op = "RefreshAPI", !.pc = "r_get",
                                 !.before = call[c].before, !.rnd = nextName]]
  /\ nextName' = nextName + 1
  /\ UNCHANGED <<deployment, service, virtualService, s3, autoscalerCrons, crons,
                 del, nDeletes, crashed,
                 probe>>

\* Lines 100-105: the workload is read; it must exist.
RefreshAPI_GetDeployment(c) ==
  /\ Running
  /\ call[c].pc = "r_get"
  /\ \E ok \in BOOLEAN, ready \in 0..MaxReady :
       call' = [call EXCEPT ![c] =
          IF ~ok THEN Done(@, NoMsg, ErrGateway)
          ELSE IF deployment = Nil
               THEN Done(@, NoMsg, ErrorAPINotDeployed(ApiName))
               ELSE [@ EXCEPT !.prevD = ReadObject(deployment, ready),
                              !.pc = "r_status"]]
  /\ UNCHANGED <<deployment, service, virtualService, s3, autoscalerCrons, crons,
                 del, nextName, nDeletes, crashed,
                 probe>>

\* Faulty variant of the guard of line 112, which refuses nothing
\* (C16_RefreshPreconditions does not hold of it).
RefreshAPI_guard_Never(isUpdating, force) == FALSE

\* Line 112: the in-flight guard
RefreshAPI_guard(isUpdating, force) == isUpdating /\ ~force

\* Lines 107-114: the in-flight guard.
RefreshAPI_isAPIUpdating(c) ==
  /\ Running
  /\ call[c].pc = "r_status"
  /\ \E ok \in BOOLEAN, isUpdating \in IsUpdatingOutcomes(call[c].prevD),
        force \in BOOLEAN :
       call' = [call EXCEPT ![c] =
          IF ~ok THEN Done(@, NoMsg, ErrGateway)
          ELSE IF RefreshAPI_guard(isUpdating, force)
               THEN [Done(@, NoMsg, ErrorAPIUpdating(ApiName))
                       EXCEPT !.isUpd = isUpdating, !.force = force]
               ELSE [@ EXCEPT !.isUpd = isUpdating,
                              !.force = isUpdating /\ force,
                              !.pc = "r_download"]]
  /\ UNCHANGED <<deployment, service, virtualService, s3, autoscalerCrons, crons,
                 del, nextName, nDeletes, crashed,
                 probe>>

\* Faulty variant of line 126, which keeps the workload's deploymentID
\* (C4_RefreshRestarts does not hold of it).
RefreshAPI_deploymentID_Reuse(prevDeployment, randomName) ==
  prevDeployment.labels.deploymentID

\* Line 126: the downloaded configuration is materialized again, under a
\* random name.
RefreshAPI_deploymentID(prevDeployment, randomName) == randomName

\* Lines 116-126: the persisted spec named by the workload's apiID label is
\* downloaded (it must be there) and materialized again.
RefreshAPI_Download(c) ==
  /\ Running
  /\ call[c].pc = "r_download"
  /\ LET k == call[c]
         found == {a \in s3 : a.id = k.prevD.labels.apiID}
     IN \E ok \in BOOLEAN :
          call' = [call EXCEPT ![c] =
            IF ~ok \/ found = {}
            THEN Done(k, NoMsg, ErrGateway)
            ELSE LET a == CHOOSE x \in found : TRUE IN
                 [k EXCEPT !.cfg = a.cfg, !.projectID = a.projectID,
                           !.api = GetAPISpec(a.cfg, a.projectID,
                                     RefreshAPI_deploymentID(k.prevD, k.rnd)),
                           !.pc = "r_upload"]]
  /\ UNCHANGED <<deployment, service, virtualService, s3, autoscalerCrons, crons,
                 del, nextName, nDeletes, crashed,
                 probe>>

\* Faulty variant of lines 128-132, which applies all three objects
\* (C19_RefreshFrame does not hold of it).
RefreshAPI_Upload_AllThree(c) ==
  UploadMsgpackToS3(c, "r_upload", "r_apply", AllThree)

\* Line 128
RefreshAPI_Upload(c) == UploadMsgpackToS3(c, "r_upload", "r_apply", OnlyDeployment)

\* Lines 132-136: applyK8sDeployment has returned.
RefreshAPI_Join(c) ==
  /\ Running
  /\ call[c].pc = "r_apply"
  /\ Joined(call[c])
  /\ call' = [call EXCEPT ![c] =
       IF @.err # NoErr THEN Done(@, NoMsg, @.err)
       ELSE Done(@, <<"updating", @.api.name>>, NoErr)]
  /\ UNCHANGED <<deployment, service, virtualService, s3, autoscalerCrons, crons,
                 del, nextName, nDeletes, crashed,
                 probe>>

\* ------------------------------------------------------ deleteK8sResources
\* A rollback goroutine ends when its three branches have; a caller's
\* DeleteAPI joins them itself.
Finished(r) == r.bD = "done" /\ r.bS = "done" /\ r.bV = "done"
\* What a rollback's deleteK8sResources returns is dropped (line 61).
Settle(g, r) ==
  IF g \notin Rollbacks THEN r
  ELSE IF Finished(r) THEN IdleDel ELSE [r EXCEPT !.err = NoErr]

\* Lines 293-294: the registered cron, if any, is cancelled.
deleteK8sResources_Cancel(g) ==
  /\ Running
  /\ del[g].bD = "del_get"
  /\ crons' = IF Registered THEN Cancel(crons, autoscalerCrons[ApiName])
              ELSE crons
  /\ del' = [del EXCEPT ![g].bD = IF Registered THEN "del_rm" ELSE "del_dep"]
  /\ UNCHANGED <<deployment, service, virtualService, s3, autoscalerCrons, call,
                 nextName, nDeletes, crashed,
                 probe>>

\* Faulty variant of line 295, which leaves the entry in the map
\* (C7_DeletePostcondition does not hold of it).
deleteK8sResources_Remove_Keep(g) ==
  /\ Running
  /\ del[g].bD = "del_rm"
  /\ del' = [del EXCEPT ![g].bD = "del_dep"]
  /\ UNCHANGED <<deployment, service, virtualService, s3, autoscalerCrons, crons,
                 call, nextName, nDeletes, crashed,
                 probe>>

\* Line 295: delete(_autoscalerCrons, apiName)
deleteK8sResources_Remove(g) ==
  /\ Running
  /\ del[g].bD = "del_rm"
  /\ autoscalerCrons' = [n \in DOMAIN autoscalerCrons \ {ApiName} |->
                           autoscalerCrons[n]]
  /\ del' = [del EXCEPT ![g].bD = "del_dep"]
  /\ UNCHANGED <<deployment, service, virtualService, s3, crons, call, nextName, nDeletes, crashed,
                 probe>>

\* Lines 298-299
deleteK8sResources_DeleteDeployment(g) ==
  /\ Running
  /\ del[g].bD = "del_dep"
  /\ \E ok \in BOOLEAN :
       /\ deployment' = IF ok THEN Nil ELSE deployment
       /\ del' = [del EXCEPT ![g] = Settle(g,
            [@ EXCEPT !.bD = "done",
                      !.err = IF ok THEN @ ELSE FirstErr(@, ErrGateway)])]
  /\ UNCHANGED <<service, virtualService, s3, autoscalerCrons, crons, call,
                 nextName, nDeletes, crashed,
                 probe>>

\* Lines 301-304
deleteK8sResources_DeleteService(g) ==
  /\ Running
  /\ del[g].bS = "todo"
  /\ \E ok \in BOOLEAN :
       /\ service' = IF ok THEN Nil ELSE service
       /\ del' = [del EXCEPT ![g] = Settle(g,
            [@ EXCEPT !.bS = "done",
                      !.err = IF ok THEN @ ELSE FirstErr(@, ErrGateway)])]
  /\ UNCHANGED <<deployment, virtualService, s3, autoscalerCrons, crons, call,
                 nextName, nDeletes, crashed,
                 probe>>

\* Lines 305-308
deleteK8sResources_DeleteVirtualService(g) ==
  /\ Running
  /\ del[g].bV = "todo"
  /\ \E ok \in BOOLEAN :
       /\ virtualService' = IF ok THEN Nil ELSE virtualService
       /\ del' = [del EXCEPT ![g] = Settle(g,
            [@ EXCEPT !.bV = "done",
                      !.err = IF ok THEN @ ELSE FirstErr(@, ErrGateway)])]
  /\ UNCHANGED <<deployment, service, s3, autoscalerCrons, crons, call,
                 nextName, nDeletes, crashed,
                 probe>>

\* ---------------------------------------------------------------- DeleteAPI
\* Faulty variant of lines 145-147, which deletes the artifacts whatever
\* keepCache says (C15_KeepCache does not hold of it).
DeleteAPI_keepCache_Ignored(keepCache) == "todo"

\* Lines 145-147: with keepCache the second action returns at once.
DeleteAPI_keepCache(keepCache) == IF keepCache THEN "done" ELSE "todo"

\* Faulty variant of lines 153-177, which also returns an error when a
\* best-effort action failed (C14_DeleteErrorPropagation does not hold of it).
DeleteAPI_Join_Strict(c) ==
  /\ Running
  /\ call[c].pc = "d_run"
  /\ Finished(del[c])
  /\ call[c].bX = "done"
  /\ \E outcome \in {"ok", "statuses failed", "remove failed"} :
       call' = [call EXCEPT ![c] =
                  [Done(@, NoMsg,
                        IF @.be \/ outcome # "ok" THEN ErrGateway ELSE del[c].err)
                     EXCEPT !.be = @ \/ outcome # "ok"]]
  /\ UNCHANGED <<deployment, service, virtualService, s3, autoscalerCrons, crons,
                 del, nextName, nDeletes, crashed, probe>>

\* An idle caller invokes DeleteAPI(apiName, keepCache): the three actions of
\* lines 140-171 are started; with keepCache the second returns at once.
CallDeleteAPI(c) ==
  /\ Running
  /\ CanCall(c)
  /\ nDeletes < MaxDeletes
  /\ \E keepCache \in BOOLEAN :
       call' = [call EXCEPT ![c] =
                  [IdleCall EXCEPT !.op = "DeleteAPI", !.pc = "d_run",
                                   !.keepCache = keepCache,
                                   !.before = call[c].before,
                                   !.bX = DeleteAPI_keepCache(keepCache)]]
  /\ del' = [del EXCEPT ![c] = StartDel]
  /\ nDeletes' = nDeletes + 1
  /\ UNCHANGED <<deployment, service, virtualService, s3, autoscalerCrons, crons,
                 nextName, crashed,
                 probe>>

\* Lines 148-150, 312-319: DeleteS3Dir of the API's prefix; best effort.
deleteS3Resources(c) ==
  /\ Running
  /\ call[c].pc = "d_run"
  /\ call[c].bX = "todo"
  /\ \E ok \in BOOLEAN :
       /\ s3' = IF ok THEN {} ELSE s3
       /\ call' = [call EXCEPT ![c] =
                     [@ EXCEPT !.bX = "done", !.wr = @ \cup {"s3delete"},
                               !.nS3 = @ + 1, !.be = @ \/ ~ok]]
  /\ UNCHANGED <<deployment, service, virtualService, autoscalerCrons, crons,
                 del, nextName, nDeletes, crashed,
                 probe>>

\* Lines 140, 153-177: all three actions have finished; only the error of
\* deleteK8sResources is returned.  The third action (GetAllStatuses, then
\* removeAPIFromDashboard) touches nothing of this state and its errors are
\* printed only: its outcome is drawn here.
DeleteAPI_Join(c) ==
  /\ Running
  /\ call[c].pc = "d_run"
  /\ Finished(del[c])
  /\ call[c].bX = "done"
  /\ \E outcome \in {"ok", "statuses failed", "remove failed"} :
       call' = [call EXCEPT ![c] =
                  [Done(@, NoMsg, del[c].err) EXCEPT !.be = @ \/ outcome # "ok"]]
  /\ UNCHANGED <<deployment, service, virtualService, s3, autoscalerCrons, crons,
                 del, nextName, nDeletes, crashed,
                 probe>>

\* ------------------------------------------------------------------ return
\* The entry operation returns; the caller remembers what Before says, and
\* the deleteK8sResources a DeleteAPI ran is over.
Return(c) ==
  /\ ~crashed
  /\ call[c].pc = "done"
  /\ call' = [call EXCEPT ![c] = [IdleCall EXCEPT !.before = Before(call[c])]]
  /\ del' = [del EXCEPT ![c] = IdleDel]
  /\ UNCHANGED <<deployment, service, virtualService, s3, autoscalerCrons, crons,
                 nextName, nDeletes, crashed,
                 probe>>

\* --------------------------------------------------- unsynchronized map
\* _autoscalerCrons is a plain Go map shared by every goroutine without a
\* lock.  Goroutines positioned at an access to it:
MapReaders ==
  {c \in Callers : call[c].pc \in ApplyPcs /\ call[c].bD = "cron_get"}
    \cup {g \in Deleters : del[g].bD = "del_get"}
MapWriters ==
  {c \in Callers : call[c].pc \in ApplyPcs /\ call[c].bD = "cron_put"}
    \cup {g \in Deleters : del[g].bD = "del_rm"}

\* Two goroutines access the map at once, one of them writing: a data race.
\* Either the accesses take effect one after the other (the actions above), or
\* the runtime detects the race and aborts the process ("fatal error:
\* concurrent map writes"), which ends every cron with it.
MapRaceFault ==
  /\ Running
  /\ \E w \in MapWriters : \E o \in (MapReaders \cup MapWriters) \ {w} : TRUE
  /\ crashed' = TRUE
  /\ crons' = [h \in 1..Len(crons) |-> [live |-> FALSE, from |-> <<>>]]
  /\ autoscalerCrons' = [n \in {} |-> 0]
  /\ UNCHANGED <<deployment, service, virtualService, s3, call, del, nextName, nDeletes,
                 probe>>

\* ------------------------------------------------------------ specification
Start(c) == CallUpdateAPI(c) \/ CallRefreshAPI(c) \/ CallDeleteAPI(c)

Step(c) ==
  \/ getK8sResources_Deployment(c)
  \/ getK8sResources_Service(c)
  \/ getK8sResources_VirtualService(c)
  \/ UpdateAPI_Materialize(c)
  \/ UpdateAPI_Create_Upload(c)
  \/ UpdateAPI_Create_Join(c)
  \/ UpdateAPI_Create_Dashboard(c)
  \/ UpdateAPI_Changed_isAPIUpdating(c)
  \/ UpdateAPI_Update_Upload(c)
  \/ UpdateAPI_Update_Join(c)
  \/ UpdateAPI_Same_isAPIUpdating(c)
  \/ RefreshAPI_GetDeployment(c)
  \/ RefreshAPI_isAPIUpdating(c)
  \/ RefreshAPI_Download(c)
  \/ RefreshAPI_Upload(c)
  \/ RefreshAPI_Join(c)
  \/ applyK8sDeployment_Create(c)
  \/ applyK8sDeployment_Delete(c)
  \/ applyK8sDeployment_Recreate(c)
  \/ applyK8sDeployment_Update(c)
  \/ UpdateAutoscalerCron_CancelPrev(c)
  \/ UpdateAutoscalerCron_Run(c)
  \/ UpdateAutoscalerCron_Store(c)
  \/ applyK8sService(c)
  \/ applyK8sVirtualService(c)
  \/ deleteS3Resources(c)
  \/ DeleteAPI_Join(c)

DeleteStep(g) ==
  \/ deleteK8sResources_Cancel(g)
  \/ deleteK8sResources_Remove(g)
  \/ deleteK8sResources_DeleteDeployment(g)
  \/ deleteK8sResources_DeleteService(g)
  \/ deleteK8sResources_DeleteVirtualService(g)

\* The number of entry operations started so far
Started == (nextName - 1) + nDeletes

\* Entry operations are dispatched to parallel workers: any idle caller may
\* start one at any time.
Next ==
  \/ \E c \in Callers : (Started < MaxCalls /\ Start(c)) \/ Step(c) \/ Return(c)
  \/ \E g \in Deleters : DeleteStep(g)
  \/ MapRaceFault

Spec == Init /\ [][Next]_vars

\* Nothing is in progress: no entry operation, no rollback goroutine.
Quiescent ==
  /\ \A c \in Callers : call[c].pc = "idle"
  /\ \A g \in Deleters : del[g] = IdleDel

\* One caller issuing one operation at a time, each after everything started
\* before it (the detached rollback included) has finished.
NextSerial ==
  \/ \E c \in Callers : (Quiescent /\ Start(c)) \/ Step(c) \/ Return(c)
  \/ \E g \in Deleters : DeleteStep(g)

SpecSerial == Init /\ [][NextSerial]_vars

\* ================================================================== claims
\* Serial properties are checked under SpecSerial, in which an entry
\* operation starts only when nothing is running; properties of concurrent
\* calls under Spec.

\* C1: at most one live autoscaler task per API name in every reachable
\* state, under any interleaving of concurrent UpdateAPI, RefreshAPI,
\* DeleteAPI and rollback deletion.  (One API name: LiveCrons are its tasks.)
C1_AtMostOneLiveTask == Cardinality(LiveCrons) <= 1

\* The UpdateAPI call of record k has its result, no collaborator failed in
\* it, and the call its caller made before was a successful UpdateAPI with
\* the same configuration and project.
SecondCall(k) ==
  /\ k.op = "UpdateAPI"
  /\ k.pc = "done"
  /\ k.cfg # Nil
  /\ k.before = [cfg |-> k.cfg, projectID |-> k.projectID]
  /\ ~CollaboratorFailed(k)

\* C2 (as stated): the second of two successive successful UpdateAPI calls
\* with the same configuration returns "<name> is up to date" and writes
\* nothing.
C2_RepeatIsUpToDate ==
  \A c \in Callers :
    SecondCall(call[c]) =>
      /\ call[c].wr = {}
      /\ call[c].msg = <<ApiName, "is up to date">>

\* C2 (amended): the second of two successive successful UpdateAPI calls with
\* the same configuration writes nothing and returns no error; its message
\* is "<name> is already updating" while the rollout of the first is still
\* converging, and "<name> is up to date" otherwise.
C2_RepeatWritesNothing ==
  \A c \in Callers :
    SecondCall(call[c]) =>
      /\ call[c].wr = {}
      /\ call[c].err = NoErr
      /\ call[c].msg = IF call[c].isUpd
                       THEN <<ApiName, "is already updating">>
                       ELSE <<ApiName, "is up to date">>

C2_Witness ==
  \E c \in Callers :
    /\ SecondCall(call[c])
    /\ ~call[c].isUpd
    /\ call[c].msg = <<ApiName, "is up to date">>
    /\ deployment # Nil

\* The UpdateAPI call of record k found a workload whose definition differs
\* from the new one, saw its rollout converging, and was not forced.
Blocked(k) ==
  /\ k.op = "UpdateAPI"
  /\ k.api # Nil
  /\ k.prevD # Nil
  /\ ~areAPIsEqual(k.prevD, newDeployment(k))
  /\ k.isUpd
  /\ ~k.force

\* C3: an UpdateAPI call whose definition differs from the existing
\* workload's, made while that workload's rollout is converging and with
\* force false, ends with the "<name> is updating" error and has written
\* nothing (no spec persisted, no cluster object written, registry
\* untouched); and UpdateAPI gives that error in no other case.
C3_InFlightGuard ==
  \A c \in Callers :
    /\ Blocked(call[c]) =>
         /\ call[c].pc = "done"
         /\ call[c].err = ErrorAPIUpdating(ApiName)
         /\ call[c].msg = NoMsg
         /\ call[c].wr = {}
    /\ (call[c].op = "UpdateAPI" /\ call[c].err = ErrorAPIUpdating(ApiName))
         => Blocked(call[c])

C3_Witness ==
  \E c \in Callers :
    /\ Blocked(call[c])
    /\ call[c].pc = "done"
    /\ call[c].err = ErrorAPIUpdating(ApiName)
    /\ deployment # Nil
    /\ Registered

\* C4: a RefreshAPI call on a deployed API whose rollout is not converging
\* (UpdateAPI with the same configuration would say "up to date"), in which
\* no collaborator fails, applies the workload under a deploymentID that
\* differs from the one it had, and returns "updating <name>".
C4_RefreshRestarts ==
  \A c \in Callers :
    LET k == call[c] IN
    (/\ k.op = "RefreshAPI"
     /\ k.pc = "done"
     /\ k.prevD # Nil
     /\ ~k.isUpd
     /\ ~CollaboratorFailed(k)) =>
      /\ k.err = NoErr
      /\ k.msg = <<"updating", ApiName>>
      /\ "deployment" \in k.wr
      /\ deployment # Nil
      /\ deployment.labels.deploymentID = k.api.deploymentID
      /\ k.api.deploymentID # k.prevD.labels.deploymentID

C4_Witness ==
  \E c \in Callers :
    /\ call[c].op = "RefreshAPI"
    /\ call[c].pc = "done"
    /\ call[c].prevD # Nil
    /\ ~call[c].isUpd
    /\ call[c].msg = <<"updating", ApiName>>
    /\ deployment # Nil
    /\ deployment.labels.deploymentID # call[c].prevD.labels.deploymentID

\* The spec an UpdateAPI call materializes carries the deploymentID label of
\* the workload it read, and a fresh one only if it read none; a call that
\* follows a successful UpdateAPI reads a workload.
C5_Materialized ==
  \A c \in Callers :
    LET k == call[c] IN
    (k.op = "UpdateAPI" /\ k.api # Nil) =>
      /\ k.prevD # Nil => k.api.deploymentID = k.prevD.labels.deploymentID
      /\ k.prevD = Nil => k.api.deploymentID = k.rnd
      /\ k.before # Nil => k.prevD # Nil

\* C5: UpdateAPI reuses the deploymentID of the existing workload whenever
\* one exists and draws a fresh one only when none exists; consequently no
\* step taken while only UpdateAPI calls run changes the deploymentID of the
\* workload.
C5_DeploymentIDPreserved ==
  /\ []C5_Materialized
  /\ [][(/\ deployment # Nil
         /\ deployment' # Nil
         /\ \A c \in Callers : call[c].op # "RefreshAPI")
        => deployment'.labels.deploymentID = deployment.labels.deploymentID]_vars

C5_Witness ==
  \E c \in Callers :
    /\ call[c].op = "UpdateAPI"
    /\ call[c].pc = "done"
    /\ call[c].before # Nil
    /\ call[c].msg = <<"updating", ApiName>>
    /\ call[c].rnd # call[c].api.deploymentID
    /\ deployment # Nil
    /\ deployment.labels.deploymentID = call[c].prevD.labels.deploymentID
    /\ deployment.labels.apiID # call[c].prevD.labels.apiID

\* C6: when UpdateAPI, called with no workload present, returns without
\* error, its message is "creating <name>", the three cluster objects exist
\* and exactly one live autoscaler task exists, the registered one; whether
\* the dashboard update failed makes no difference.
C6_CreationPostcondition ==
  \A c \in Callers :
    LET k == call[c] IN
    (/\ k.op = "UpdateAPI"
     /\ k.pc = "done"
     /\ k.prevD = Nil
     /\ k.err = NoErr) =>
      /\ k.msg = <<"creating", ApiName>>
      /\ deployment # Nil
      /\ service # Nil
      /\ virtualService # Nil
      /\ Registered
      /\ LiveCrons = {autoscalerCrons[ApiName]}

C6_Witness ==
  \E c \in Callers :
    /\ call[c].op = "UpdateAPI"
    /\ call[c].pc = "done"
    /\ call[c].prevD = Nil
    /\ call[c].err = NoErr
    /\ call[c].be
    /\ Cardinality(LiveCrons) = 1

\* C7: DeleteAPI is never refused (its only error is a failed deletion of a
\* cluster object), and when it returns without error, nothing else running,
\* none of the three cluster objects remains and the registry holds no task
\* for the name.
C7_DeletePostcondition ==
  \A c \in Callers :
    LET k == call[c] IN
    (k.op = "DeleteAPI" /\ k.pc = "done") =>
      /\ k.err \in {NoErr, ErrGateway}
      /\ k.err = NoErr =>
           /\ deployment = Nil
           /\ service = Nil
           /\ virtualService = Nil
           /\ ~Registered

C7_Witness ==
  \E c \in Callers :
    /\ call[c].op = "DeleteAPI"
    /\ call[c].pc = "done"
    /\ call[c].err = NoErr
    /\ Len(crons) >= 1
    /\ deployment = Nil
    /\ ~Registered

\* C8: whenever no operation is in progress and no workload object exists,
\* no autoscaler task is live.
C8_NoTaskWithoutWorkload == (Quiescent /\ deployment = Nil) => LiveCrons = {}

\* C9: in serial execution each UpdateAutoscalerCron call has cancelled every
\* earlier task before it schedules its own, so that after it has stored the
\* new handle exactly one task is live: the last one scheduled, which is the
\* registered one.
C9_SequentialReplacement ==
  \A c \in Callers :
    LET k == call[c] IN
    /\ (k.pc \in ApplyPcs /\ k.bD = "cron_run") => LiveCrons = {}
    /\ (k.pc \in ApplyPcs /\ k.bD = "cron_put") =>
         /\ k.h = Len(crons)
         /\ LiveCrons = {k.h}
    /\ (k.pc \in ApplyPcs \cup {"c_dash", "done"} /\ k.bD = "done" /\ k.h # 0) =>
         /\ Registered
         /\ autoscalerCrons[ApiName] = Len(crons)
         /\ LiveCrons = {Len(crons)}

C9_Witness ==
  \E c \in Callers :
    /\ call[c].pc = "done"
    /\ call[c].err = NoErr
    /\ call[c].h = 2
    /\ Len(crons) = 2
    /\ ~crons[1].live
    /\ crons[2].live
    /\ autoscalerCrons[ApiName] = 2

\* C10: after any sequence of UpdateAutoscalerCron calls and deletions (no
\* operation in progress), including calls in which deriving the autoscaling
\* function fails, the handle the registry holds for a name is not a
\* cancelled one.
C10_RegisteredTaskIsLive ==
  (Quiescent /\ Registered) => crons[autoscalerCrons[ApiName]].live

\* ===================================================== the pure functions
\* isAPIUpdating and areAPIsEqual evaluated on their own, on arguments drawn
\* from bounded sets (specification SpecEval).

\* Longest pod list given to isAPIUpdating on its own.
MaxEvalPods == 3
\* Largest configured minimum replica count given to isAPIUpdating on its own.
MaxEvalMin == 3

\* An annotation key of another owner that happens to contain "cortex.dev/"
\* ("notcortex.dev/owner").
ForeignKey == <<"not", "cortex.dev/", "owner">>

\* A workload definition with the given minimum replica count.
EvalDeployment(min) ==
  DeploymentSpec(
    GetAPISpec([name |-> ApiName, compute |-> 1, strategy |-> "rolling",
                minReplicas |-> min], "p1", 1), Nil)

\* Pods listed under the API's name: of the workload's current revision, or
\* stale in one of the three things isPodSpecLatest compares (the API name
\* is the one the list was asked for).  `rev` says which; nothing reads it.
EvalPods(d) ==
  { [labels |-> [apiName |-> d.labels.apiName,
                 apiID |-> IF rev = "staleApiID" THEN <<"old">>
                           ELSE d.labels.apiID,
                 deploymentID |-> IF rev = "staleDeploymentID" THEN 2
                                  ELSE d.labels.deploymentID],
     compute |-> IF rev = "staleCompute" THEN 2 ELSE d.compute,
     phase |-> ph, rev |-> rev] :
       rev \in {"current", "staleApiID", "staleDeploymentID", "staleCompute"},
       ph \in PodPhases }

\* Annotation maps over the three kinds of key, and the items two workload
\* definitions may differ in.
EvalKeys == {MinReplicasKey, ForeignKey, RevisionKey}
EvalAnnotations ==
  UNION { [ks -> {1, 2}] : ks \in SUBSET EvalKeys }
EvalItems == {"compute", "strategy", "apiName", "apiID", "deploymentID"}
Differing(d, items, ann) ==
  [labels |-> [apiName |-> IF "apiName" \in items THEN "b"
                           ELSE d.labels.apiName,
               apiID |-> IF "apiID" \in items THEN <<"old">>
                         ELSE d.labels.apiID,
               deploymentID |-> IF "deploymentID" \in items THEN 2
                                ELSE d.labels.deploymentID],
   compute |-> IF "compute" \in items THEN 2 ELSE d.compute,
   strategy |-> IF "strategy" \in items THEN "recreate" ELSE d.strategy,
   annotations |-> ann,
   readyReplicas |-> d.readyReplicas]

InitEval ==
  /\ Started0
  /\ \/ \E min \in 1..MaxEvalMin, n \in 0..MaxEvalPods :
          \E pods \in [1..n -> EvalPods(EvalDeployment(min))] :
            probe = [NoProbe EXCEPT !.fn = "isAPIUpdating",
                                    !.d1 = EvalDeployment(min), !.pods = pods]
     \/ \E a1, a2 \in EvalAnnotations, items \in SUBSET EvalItems :
          probe = [NoProbe EXCEPT !.fn = "areAPIsEqual",
                     !.d1 = Differing(EvalDeployment(1), {}, a1),
                     !.d2 = Differing(EvalDeployment(1), items, a2)]

\* Lines 327-339: isAPIUpdating, the pods having been listed.
Eval_isAPIUpdating ==
  /\ probe.fn = "isAPIUpdating"
  /\ ~probe.done
  /\ probe' = [probe EXCEPT !.done = TRUE,
                            !.out = isAPIUpdating(probe.d1, probe.pods)]
  /\ UNCHANGED <<deployment, service, virtualService, s3, autoscalerCrons, crons,
                 call, del, nextName, nDeletes, crashed>>

\* Lines 349-356: areAPIsEqual
Eval_areAPIsEqual ==
  /\ probe.fn = "areAPIsEqual"
  /\ ~probe.done
  /\ probe' = [probe EXCEPT !.done = TRUE,
                            !.out = areAPIsEqual(probe.d1, probe.d2)]
  /\ UNCHANGED <<deployment, service, virtualService, s3, autoscalerCrons, crons,
                 call, del, nextName, nDeletes, crashed>>

NextEval == Eval_isAPIUpdating \/ Eval_areAPIsEqual
SpecEval == InitEval /\ [][NextEval]_vars

\* Pods of the workload's current revision in the given phase.
CurrentIn(pods, phase) ==
  Cardinality({i \in 1..Len(pods) :
                 pods[i].rev = "current" /\ pods[i].phase = phase})

\* C11: isAPIUpdating reports converging exactly when the ready pods of the
\* current revision are fewer than the configured minimum replicas and no
\* pod of the current revision has failed; stale pods never count.
C11_RolloutStatusRule ==
  (probe.fn = "isAPIUpdating" /\ probe.done) =>
    (probe.out <=>
       /\ CurrentIn(probe.pods, "ready") < probe.d1.annotations[MinReplicasKey]
       /\ CurrentIn(probe.pods, "failed") = 0)

\* min = 3, two ready pods of the current revision, a failed stale pod:
\* converging.
C11_Witness ==
  /\ probe.fn = "isAPIUpdating"
  /\ probe.done
  /\ probe.d1.annotations[MinReplicasKey] = 3
  /\ CurrentIn(probe.pods, "ready") = 2
  /\ CurrentIn(probe.pods, "failed") = 0
  /\ \E i \in 1..Len(probe.pods) :
       probe.pods[i].rev # "current" /\ probe.pods[i].phase = "failed"
  /\ probe.out

\* A key carries the reserved prefix when the part before its "/" is
\* cortex.dev or a subdomain of it.
HasReservedPrefix(key) ==
  \/ key[1] = "cortex.dev/"
  \/ Len(key) >= 2 /\ key[1] = "autoscaling." /\ key[2] = "cortex.dev/"

\* The annotations of d under the keys that carry the reserved prefix.
ReservedAnnotations(d) ==
  [k \in {key \in DOMAIN d.annotations : HasReservedPrefix(key)} |->
     d.annotations[k]]

\* C12: areAPIsEqual is true exactly when compute, strategy, the three
\* identity labels and the annotations whose key carries the reserved
\* prefix all match; definitions that differ only in other annotations are
\* equal.
C12_ReservedPrefixScoped ==
  (probe.fn = "areAPIsEqual" /\ probe.done) =>
    (probe.out <=>
       /\ probe.d1.compute = probe.d2.compute
       /\ probe.d1.strategy = probe.d2.strategy
       /\ probe.d1.labels = probe.d2.labels
       /\ ReservedAnnotations(probe.d1) = ReservedAnnotations(probe.d2))

\* ------------------------------------------------- rollback runs to its end
\* A step of deleteK8sResources in which the gateway's delete call succeeds.
DeleteStepOK(g) ==
  \/ deleteK8sResources_Cancel(g)
  \/ deleteK8sResources_Remove(g)
  \/ deleteK8sResources_DeleteDeployment(g) /\ deployment' = Nil
  \/ deleteK8sResources_DeleteService(g) /\ service' = Nil
  \/ deleteK8sResources_DeleteVirtualService(g) /\ virtualService' = Nil

\* Serial callers, the gateway's delete calls succeed, and what has been
\* started goes on: a function that has its result returns, a goroutine
\* that can take a step takes one.
NextCleanup ==
  \/ \E c \in Callers : (Quiescent /\ Start(c)) \/ Step(c) \/ Return(c)
  \/ \E g \in Deleters : DeleteStepOK(g)
SpecCleanup ==
  /\ Init
  /\ [][NextCleanup]_vars
  /\ WF_vars(\E c \in Callers : Return(c))
  /\ WF_vars(\E g \in Rollbacks : DeleteStepOK(g))

\* The creation of record k has failed in applyK8sResources and has its
\* result.
FailedCreation(k) ==
  /\ k.op = "UpdateAPI"
  /\ k.pc = "done"
  /\ k.prevD = Nil
  /\ k.bD = "done"
  /\ k.err # NoErr

\* Nothing of the API is left in the cluster or the registry.
Gone ==
  /\ deployment = Nil
  /\ service = Nil
  /\ virtualService = Nil
  /\ ~Registered
  /\ LiveCrons = {}

\* A failed creation returns the error of the apply while its rollback has
\* not taken a step, and no rollback runs while its creation is applying.
C13_Safety ==
  \A c \in Callers :
    /\ FailedCreation(call[c]) =>
         /\ del[RollbackIds[call[c].rnd]] = StartDel
         /\ call[c].err \in {ErrGateway, ErrAutoscaler}
         /\ call[c].msg = NoMsg
    /\ call[c].pc = "c_apply" => del[RollbackIds[call[c].rnd]] = IdleDel

\* C13: a creation whose apply fails returns the apply's error without
\* waiting for the cleanup, its rollback starts only when the three applies
\* have finished, and, the gateway's delete calls succeeding and nothing else
\* running on the API, eventually no cluster object and no autoscaler task
\* of the API remains.
C13_FailedCreationRollsBack ==
  /\ []C13_Safety
  /\ (\E c \in Callers : FailedCreation(call[c])) ~> Gone

C13_Witness ==
  /\ \E c \in Callers : FailedCreation(call[c])
  /\ deployment # Nil
  /\ Registered
  /\ LiveCrons # {}

\* C14: DeleteAPI returns an error exactly when deleting one of the three
\* cluster objects failed; a failure of the storage deletion, of listing the
\* statuses or of the dashboard deregistration gives no error; and it
\* returns only when its three concurrent actions have finished.
C14_DeleteErrorPropagation ==
  \A c \in Callers :
    LET k == call[c] IN
    (k.op = "DeleteAPI" /\ k.pc = "done") =>
      /\ Finished(del[c])
      /\ k.bX = "done"
      /\ k.err # NoErr <=> del[c].err # NoErr
      /\ k.err \in {NoErr, ErrGateway}

C14_Witness ==
  \E c \in Callers :
    /\ call[c].op = "DeleteAPI"
    /\ call[c].pc = "done"
    /\ call[c].be
    /\ s3 # {}
    /\ call[c].nS3 = 1
    /\ call[c].err = NoErr

\* C15: DeleteAPI with keepCache never invokes the storage deletion, at any
\* point of the call; DeleteAPI without keepCache has invoked it exactly once
\* when it returns, whether or not the deletion of the cluster objects or the
\* storage deletion itself succeeded.
C15_KeepCache ==
  \A c \in Callers :
    LET k == call[c] IN
    k.op = "DeleteAPI" =>
      /\ k.keepCache => k.nS3 = 0 /\ "s3delete" \notin k.wr
      /\ k.nS3 <= 1
      /\ (k.pc = "done" /\ ~k.keepCache) => k.nS3 = 1 /\ "s3delete" \in k.wr

C15_Witness ==
  \E c \in Callers :
    /\ call[c].op = "DeleteAPI"
    /\ call[c].pc = "done"
    /\ ~call[c].keepCache
    /\ call[c].nS3 = 1
    /\ call[c].err # NoErr
    /\ s3 # {}

\* C16: RefreshAPI on an API with no workload returns the "not deployed"
\* error, and on an API whose rollout is converging, not forced, the
\* "updating" error; in both cases it has changed nothing (no spec downloaded
\* or uploaded, no workload written, registry untouched); the not-deployed
\* check comes first: the guard is not evaluated when there is no workload.
C16_RefreshPreconditions ==
  \A c \in Callers :
    LET k == call[c] IN
    k.op = "RefreshAPI" =>
      /\ (k.pc = "done" /\ k.prevD = Nil /\ ~CollaboratorFailed(k)) =>
           /\ k.err = ErrorAPINotDeployed(ApiName)
           /\ ~k.isUpd
           /\ ~k.force
      /\ k.err = ErrorAPINotDeployed(ApiName) => k.prevD = Nil
      /\ (k.prevD # Nil /\ k.isUpd /\ ~k.force) =>
           /\ k.pc = "done"
           /\ k.err = ErrorAPIUpdating(ApiName)
      /\ k.err = ErrorAPIUpdating(ApiName) =>
           k.prevD # Nil /\ k.isUpd /\ ~k.force
      /\ k.err \in {ErrorAPINotDeployed(ApiName), ErrorAPIUpdating(ApiName)} =>
           /\ k.msg = NoMsg
           /\ k.wr = {}
           /\ k.api = Nil
           /\ k.dops = <<>>

C16_Witness ==
  \E c \in Callers :
    /\ call[c].op = "RefreshAPI"
    /\ call[c].pc = "done"
    /\ call[c].err = ErrorAPIUpdating(ApiName)
    /\ call[c].isUpd
    /\ deployment # Nil
    /\ LiveCrons # {}

\* C17: whenever no operation is in progress and the workload object is
\* present, the registry holds a live task for the API and that task was
\* derived from the workload definition stored in the cluster.
C17_TaskTracksWorkload ==
  (Quiescent /\ deployment # Nil) =>
    /\ Registered
    /\ crons[autoscalerCrons[ApiName]].live
    /\ crons[autoscalerCrons[ApiName]].from = deployment.labels.apiID

\* The gateway calls applyK8sDeployment issues for a prior workload as read.
Policy(prevDeployment) ==
  IF prevDeployment = Nil THEN <<"create">>
  ELSE IF prevDeployment.readyReplicas = 0 THEN <<"delete", "create">>
  ELSE <<"update">>

\* C18: applyK8sDeployment issues a create when no prior workload was read, a
\* delete followed by a create when the prior workload has zero ready
\* replicas, and an update otherwise; so it never updates a workload with
\* zero ready replicas and never deletes one with a ready replica.
C18_CreateOrUpdatePolicy ==
  \A c \in Callers :
    LET k == call[c]
        P == Policy(k.prevD)
    IN
    k.op \in {"UpdateAPI", "RefreshAPI"} =>
      /\ \E n \in 0..Len(P) : k.dops = SubSeq(P, 1, n)
      /\ k.bD \in {"cron_get", "cron_run", "cron_put", "done"} => k.dops = P

C18_Witness ==
  \E c \in Callers :
    /\ call[c].op = "UpdateAPI"
    /\ call[c].pc = "done"
    /\ call[c].err = NoErr
    /\ call[c].prevD # Nil
    /\ call[c].prevD.readyReplicas = 0
    /\ call[c].dops = <<"delete", "create">>

\* C19: a RefreshAPI call, whether it succeeds or fails, never writes the
\* endpoint or the routing rule: its writes are the persisted spec, the
\* workload and the registry, and no step taken while it runs changes the
\* endpoint or the routing rule.
C19_RefreshFrame ==
  /\ [](\A c \in Callers :
          call[c].op = "RefreshAPI" =>
            call[c].wr \subseteq {"s3", "deployment", "registry"})
  /\ [][(\E c \in Callers : call[c].op = "RefreshAPI")
        => UNCHANGED <<service, virtualService>>]_vars

C19_Witness ==
  \E c \in Callers :
    /\ call[c].op = "RefreshAPI"
    /\ call[c].pc = "done"
    /\ call[c].err = NoErr
    /\ {"deployment", "registry"} \subseteq call[c].wr
    /\ service # Nil
    /\ virtualService # Nil

\* C20: the rollback of a failed creation removes only what that creation
\* left behind: the workload it deletes and the task it cancels are those of
\* the creation it rolls back (whose deploymentID is the random name that
\* creation drew), not those of a later call.
C20_RollbackRemovesOnlyItsOwn ==
  [][\A n \in 1..MaxNames :
       LET g == RollbackIds[n] IN
       /\ (/\ del[g].bD = "del_dep"
           /\ del'[g].bD # "del_dep"
           /\ deployment # Nil
           /\ deployment' = Nil)
            => deployment.labels.deploymentID = n
       /\ (/\ del[g].bD = "del_get"
           /\ del'[g].bD # "del_get"
           /\ Registered
           /\ crons[autoscalerCrons[ApiName]].live)
            => crons[autoscalerCrons[ApiName]].from[4] = n]_vars

====
